---------------------------- MODULE Spec2Model ----------------------------
(***************************************************************************)
(* Model of the irrigation controller of src/irrigationESP32.ino: the     *)
(* EEPROM-backed program table with its Fletcher checksum, the            *)
(* wear-levelled elapsed-time log, the run-mode schedule evaluator with   *)
(* the backwash cycle, and the button handlers of loop().                  *)
(*                                                                         *)
(* Time.  ct is computed from millis()-start_time divided by the clock     *)
(* unit (60000 ms, or 5000 ms in fast mode).  start_time is rebased        *)
(* whenever the unit changes during a run, so the quotient is always taken *)
(* in a single unit; the variable el holds that quotient.  loop() polls    *)
(* every few milliseconds, so between two polls el grows by 0 or 1.        *)
(*                                                                         *)
(* Debounce.  After a button edge the next 32 polls skip the button code.  *)
(* They last well under one clock unit, and a poll of the run section      *)
(* with an unchanged ct does nothing, so the 32 polls are one step         *)
(* (LoopDebounce); the clock's advance is taken by a poll without button   *)
(* work (LoopQuiet).                                                       *)
(***************************************************************************)
EXTENDS Integers, Sequences, FiniteSets, TLC

VARIABLES
  EEPROM,          \* persistent bytes, address -> 0..255
  run_mode,        \* boolean run_mode
  fast_mode,       \* boolean fast_mode
  prog,            \* uint8_t prog
  station,         \* uint8_t station
  duration,        \* uint8_t duration
  last_time,       \* uint8_t last_time (6 minute blocks)
  backwash_delay,  \* uint8_t backwash_delay
  debounce,        \* uint8_t debounce
  ct, lt, bt,      \* unsigned int ct, lt, bt
  remaining,       \* unsigned int remaining[STATIONS]
  st,              \* uint8_t st[STATIONS]
  station_active,  \* uint8_t station_active, as a boolean
  relays,          \* uint8_t relays
  el,              \* (millis() - start_time) / clock unit
  serial,          \* the Serial lines printed by the last setup() or loop() pass
  nev,             \* number of events so far: button passes and power cycles
  pc,              \* position of the checksum harness (SpecCk)
  fault            \* the byte fault injected by the checksum harness

vars == << EEPROM, run_mode, fast_mode, prog, station, duration, last_time,
           backwash_delay, debounce, ct, lt, bt, remaining, st, station_active,
           relays, el, serial, nev, pc, fault >>

-----------------------------------------------------------------------------
(* EEPROM layout and table geometry (#defines)                             *)
CK1 == 96
CK2 == 97
LAST_PROG == 102
STATUS == 103
LAST_TIME_INDEX == 104
LAST_TIME_BASE == 105
LAST_TIME_SIZE == 16
PROGS == 10
MAX_PROG == 5
STATIONS == 16
EBASE == 180
DEBOUNCE == 32
DAY_MINUTES == 1440
MAX_LAST_TIME == 240
MAX_DURATION == 80
LT_RESTART == 9999
CHECKSUM_SEED == 456

bws == << 1, 2, 13 >>

TableAddrs == EBASE .. (EBASE + PROGS * STATIONS - 1)
LogAddrs == LAST_TIME_BASE .. (LAST_TIME_BASE + LAST_TIME_SIZE - 1)
Addrs == {CK1, CK2, LAST_PROG, STATUS, LAST_TIME_INDEX} \cup LogAddrs \cup TableAddrs

Byte == 0 .. 255

(* EEPROM.read / EEPROM.write: a byte store.  Addresses outside the bytes  *)
(* the sketch uses are not modelled; the sketch keeps LAST_TIME_INDEX in   *)
(* 0..15, so LAST_TIME_BASE + index stays inside the log.                  *)
EepromRead(E, a) == E[a]

EepromWrite(E, a, v) == [E EXCEPT ![a] = v % 256]

read_eeprom(E, p, s) == EepromRead(E, EBASE + p * STATIONS + s)

update_eeprom(E, p, s, d) == EepromWrite(E, EBASE + p * STATIONS + s, d)

-----------------------------------------------------------------------------
(* checksum(): Fletcher16 over the 160 table bytes, 15 bits kept           *)

(* the inner loop over the stations b of program a                         *)
RECURSIVE FletcherRow(_, _, _, _)
FletcherRow(E, a, b, sums) ==
  IF b = STATIONS THEN sums
  ELSE LET s1 == (sums[1] + read_eeprom(E, a, b)) % 255
       IN FletcherRow(E, a, b + 1, << s1, (sums[2] + s1) % 255 >>)

(* the outer loop over the programs a; both sums are residues modulo 255   *)
(* when a row ends                                                         *)
RECURSIVE Fletcher(_, _, _)
Fletcher(E, a, sums) ==
  IF a = PROGS THEN sums
  ELSE LET row == FletcherRow(E, a, 0, sums)
       IN IF row[1] < 255 /\ row[2] < 255 THEN Fletcher(E, a + 1, row) ELSE row

\* checksum() without its final "& 0x7fff"
ChecksumUnmasked(E) ==
  LET f == Fletcher(E, 0, << CHECKSUM_SEED, 0 >>)
  IN ((f[2] * 256) % 65536) + f[1]

checksum(E) ==
  LET f == Fletcher(E, 0, << CHECKSUM_SEED, 0 >>)
  IN (((f[2] * 256) % 65536) + f[1]) % 32768

update_checksum(E) ==
  LET c == checksum(E)
  IN EepromWrite(EepromWrite(E, CK1, c % 256), CK2, c \div 256)

(* the boot-time comparison of setup()                                     *)
StoredChecksum(E) == (EepromRead(E, CK2) * 256 + EepromRead(E, CK1)) % 32768

ChecksumValid(E) == StoredChecksum(E) = checksum(E)

-----------------------------------------------------------------------------
(* The controller's memory as one record, so that the parts of loop() can  *)
(* be composed in the order the sketch runs them.                          *)

Zeros == [s \in 0 .. (STATIONS - 1) |-> 0]

Max(a, b) == IF a > b THEN a ELSE b

BoolByte(b) == IF b THEN 1 ELSE 0

(* relays_off()                                                            *)
relays_off(S) == [S EXCEPT !.relays = 0]

\* stop_runmode() without its relays_off() call
StopKeepsRelays(S) ==
  [S EXCEPT !.run_mode = FALSE,
            !.EEPROM = EepromWrite(S.EEPROM, STATUS, BoolByte(FALSE))]

(* stop_runmode()                                                          *)
stop_runmode(S) ==
  relays_off([S EXCEPT !.run_mode = FALSE,
                       !.EEPROM = EepromWrite(S.EEPROM, STATUS, BoolByte(FALSE))])

\* the index step wrapping one slot early
NextIndexShort(i) == (i + 1) % (LAST_TIME_SIZE - 1)

(* start_runmode(): the wear-levelling index step                          *)
NextIndex(i) == (i + 1) % LAST_TIME_SIZE

(* start_runmode()                                                         *)
start_runmode(S) ==
  LET E1 == EepromWrite(S.EEPROM, STATUS, BoolByte(TRUE))
      E2 == EepromWrite(E1, LAST_PROG, S.station)
      i  == NextIndex(EepromRead(E2, LAST_TIME_INDEX))
      E3 == EepromWrite(E2, LAST_TIME_INDEX, i)
      E4 == EepromWrite(E3, LAST_TIME_BASE + EepromRead(E3, LAST_TIME_INDEX), 0)
  IN [S EXCEPT !.run_mode = TRUE, !.EEPROM = E4, !.el = 0, !.ct = 0,
               !.lt = LT_RESTART, !.bt = 0, !.last_time = 0,
               !.backwash_delay = 1,
               !.serial = @ \cup {"start runmode"}]

-----------------------------------------------------------------------------
(* setup()                                                                 *)

(* setup(): the table reset taken on a checksum mismatch; the 160 calls    *)
(* update_eeprom(p, s, 0) write 0 to every table address                   *)
ZeroTable(E) == [a \in Addrs |-> IF a \in TableAddrs THEN 0 ELSE E[a]]

\* the reset without its update_checksum() call
InitEepromStale(E) ==
  LET E1 == ZeroTable(E)
      E2 == EepromWrite(E1, LAST_TIME_INDEX, 0)
      E3 == EepromWrite(E2, LAST_TIME_BASE, 0)
  IN EepromWrite(E3, STATUS, BoolByte(FALSE))

\* the reset without its write of the run-state flag
InitEepromKeepsStatus(E) ==
  LET E1 == update_checksum(ZeroTable(E))
      E2 == EepromWrite(E1, LAST_TIME_INDEX, 0)
  IN EepromWrite(E2, LAST_TIME_BASE, 0)

InitEeprom(E) ==
  LET E1 == update_checksum(ZeroTable(E))
      E2 == EepromWrite(E1, LAST_TIME_INDEX, 0)
      E3 == EepromWrite(E2, LAST_TIME_BASE, 0)
  IN EepromWrite(E3, STATUS, BoolByte(FALSE))

\* the recovery guard one block late
LastTimeInvalidLate(t) == t > MAX_LAST_TIME + 1

\* the recovery guard rejecting the 24 hour checkpoint itself
LastTimeInvalidEarly(t) == t >= MAX_LAST_TIME

(* setup(): "ignore last_time > 24 hours"                                  *)
LastTimeInvalid(t) == t > MAX_LAST_TIME

(* setup() after the checksum check: recover the run state from E; bad     *)
(* tells whether the table was reset                                       *)
Recover(E, bad) ==
  LET rm   == EepromRead(E, STATUS) # 0
      t    == IF rm THEN EepromRead(E, LAST_TIME_BASE + EepromRead(E, LAST_TIME_INDEX))
              ELSE 0
      sel  == IF rm THEN EepromRead(E, LAST_PROG) ELSE 0
      drop == LastTimeInvalid(t)
      t1   == IF drop THEN 0 ELSE t
  IN [ EEPROM |-> E,
       run_mode |-> IF drop THEN FALSE ELSE rm,
       fast_mode |-> FALSE,
       prog |-> 0, station |-> sel, duration |-> 0,
       last_time |-> t1,
       backwash_delay |-> 1,
       debounce |-> 0,
       ct |-> 0, lt |-> t1 * 6, bt |-> t1 * 6 + 1,
       remaining |-> Zeros, st |-> Zeros, station_active |-> FALSE,
       relays |-> 0,
       el |-> 0,
       serial |-> (IF bad THEN {"Init EEPROM..."} ELSE {}) \cup {"*** INIT"} ]

(* setup(), from power-on: every global starts from its initialiser        *)
setup(E0) ==
  IF ChecksumValid(E0) THEN Recover(E0, FALSE) ELSE Recover(InitEeprom(E0), TRUE)

-----------------------------------------------------------------------------
(* loop(): run mode                                                        *)

\* the while loop with "pt < ct" for "pt <= ct"
RECURSIVE AccumulateStrict(_, _, _, _, _)
AccumulateStrict(E, p, s, pt, c) ==
  IF pt < c /\ s < STATIONS - 3
  THEN AccumulateStrict(E, p, s + 1, pt + read_eeprom(E, p, s) * 6, c)
  ELSE << s, pt >>

(* the while loop over stations 3..12 of one irrigation program            *)
RECURSIVE Accumulate(_, _, _, _, _)
Accumulate(E, p, s, pt, c) ==
  IF pt <= c /\ s < STATIONS - 3
  THEN Accumulate(E, p, s + 1, pt + read_eeprom(E, p, s) * 6, c)
  ELSE << s, pt >>

(* "run all or run just one program"                                       *)
Selected(sel, p) == sel = 0 \/ sel = p

(* one pass of the for loop over the programs; R holds st, remaining and   *)
(* station_active                                                          *)
EvalProgram(E, p, sel, c, R) ==
  IF Selected(sel, p)
  THEN LET a  == Accumulate(E, p, 3, 0, c)
           s  == a[1]
           pt == a[2]
       IN IF pt > c
          THEN [ st |-> [R.st EXCEPT ![s - 1] = 1],
                 remaining |-> [R.remaining EXCEPT ![s - 1] = Max(pt - c, @)],
                 station_active |-> TRUE ]
          ELSE R
  ELSE R

RECURSIVE EvalPrograms(_, _, _, _, _)
EvalPrograms(E, p, sel, c, R) ==
  IF p < PROGS - 1
  THEN EvalPrograms(E, p + 1, sel, c, EvalProgram(E, p, sel, c, R))
  ELSE R

(* the while loop over the three backwash stages of program 9              *)
RECURSIVE BwAccumulate(_, _, _, _)
BwAccumulate(E, s, pt, c) ==
  IF pt <= c /\ s < 3
  THEN BwAccumulate(E, s + 1,
                    pt + (IF s < 2 THEN read_eeprom(E, PROGS - 1, bws[s + 1]) \div 10
                                   ELSE read_eeprom(E, PROGS - 1, bws[s + 1]) * 6),
                    c)
  ELSE << s, pt >>

(* bws[s-1] with s = 0 reads the byte in front of the array: any value.    *)
(* A value in 0..15 lands in st[] and remaining[]; STATIONS stands for a   *)
(* value whose write lands outside the modelled memory.                    *)
StrayIndex == 0 .. STATIONS

\* the backwash block run whether or not an irrigation station is active
BackwashUngated(S, R) ==
  IF S.backwash_delay # 0
  THEN { << [S EXCEPT !.bt = S.ct + 1, !.backwash_delay = @ - 1], R >> }
  ELSE LET a  == BwAccumulate(S.EEPROM, 0, S.bt, S.ct)
           s  == a[1]
           pt == a[2]
       IN IF pt > S.ct /\ s > 0
          THEN { << S, [R EXCEPT !.st[bws[s]] = 1,
                                 !.remaining[bws[s]] = pt - S.ct] >> }
          ELSE IF s = 3 THEN { << [S EXCEPT !.bt = S.ct + 1], R >> }
                        ELSE { << S, R >> }

(* "backwash program 9": the set of outcomes, one unless bws[-1] is read   *)
Backwash(S, R) ==
  IF ~R.station_active THEN { << S, R >> }
  ELSE IF S.backwash_delay # 0
  THEN { << [S EXCEPT !.bt = S.ct + 1, !.backwash_delay = @ - 1], R >> }
  ELSE LET a  == BwAccumulate(S.EEPROM, 0, S.bt, S.ct)
           s  == a[1]
           pt == a[2]
           S1 == [S EXCEPT !.serial = @ \cup {"backwash"}]
       IN IF pt > S.ct
          THEN IF s = 0
               THEN { << [S1 EXCEPT !.serial = @ \cup {"bws[-1]"}],
                         IF x < STATIONS
                         THEN [R EXCEPT !.st[x] = 1, !.remaining[x] = pt - S.ct]
                         ELSE R >> : x \in StrayIndex }
               ELSE { << S1, [R EXCEPT !.st[bws[s]] = 1,
                                       !.remaining[bws[s]] = pt - S.ct] >> }
          ELSE IF s = 3 THEN { << [S1 EXCEPT !.bt = S.ct + 1], R >> }
                        ELSE { << S1, R >> }

(* the 8-bit relay register: pump first, then st[1]..st[7] shifted in      *)
RECURSIVE ShiftRelays(_, _, _)
ShiftRelays(r, s, stv) ==
  IF s < 8 THEN ShiftRelays(((r * 2) % 256) + (stv[s] % 2), s + 1, stv) ELSE r

\* the relay register started from 0: the pump bit never set
RelayWordNoPump(stv) == ShiftRelays(0, 1, stv)

RelayWord(stv) == ShiftRelays(1, 1, stv)

PUMP_BIT == 128

PumpOn(r) == (r \div PUMP_BIT) % 2 = 1

(* bit of station s (1..7) in the relay register                           *)
RelayOn(r, s) == (r \div (2 ^ (7 - s))) % 2 = 1

\* the evaluation that leaves Run State alone when no station is active
EvaluateKeepsRunning(S) ==
  LET S1 == [S EXCEPT !.lt = S.ct,
                      !.EEPROM = EepromWrite(S.EEPROM,
                          LAST_TIME_BASE + EepromRead(S.EEPROM, LAST_TIME_INDEX),
                          S.ct \div 6)]
      R0 == [ st |-> Zeros, remaining |-> Zeros, station_active |-> FALSE ]
      R1 == EvalPrograms(S1.EEPROM, 1, S1.station, S1.ct, R0)
  IN { [o[1] EXCEPT !.st = o[2].st, !.remaining = o[2].remaining,
                    !.station_active = o[2].station_active,
                    !.relays = IF o[2].station_active THEN RelayWord(o[2].st) ELSE 0,
                    !.serial = @ \cup {IF o[2].station_active
                                       THEN "Active stations: " ELSE "Run complete."}]
     : o \in Backwash(S1, R1) }

(* the body of "if (lt != ct)": checkpoint, evaluate, drive or stop        *)
Evaluate(S) ==
  LET R0 == [ st |-> Zeros, remaining |-> Zeros, station_active |-> FALSE ]
  IN UNION { UNION {
       { LET T == o[1]
             R == o[2]
             T1 == [T EXCEPT !.st = R.st, !.remaining = R.remaining,
                             !.station_active = R.station_active]
         IN IF R.station_active
            THEN [T1 EXCEPT !.relays = RelayWord(R.st),
                            !.serial = @ \cup {"Active stations: "}]
            ELSE [stop_runmode(T1) EXCEPT !.serial = @ \cup {"Run complete."}]
         : o \in Backwash(S1, R1) }
       \* the irrigation programs, evaluated on the checkpointed memory
       : R1 \in { EvalPrograms(S1.EEPROM, 1, S1.station, S1.ct, R0) } }
     \* "lt=ct" and the checkpoint written to the live log slot
     : S1 \in { [S EXCEPT !.lt = S.ct,
                          !.EEPROM = EepromWrite(S.EEPROM,
                              LAST_TIME_BASE + EepromRead(S.EEPROM, LAST_TIME_INDEX),
                              S.ct \div 6)] } }

\* the ceiling compared in seconds
CeilingInSeconds(c) == c > DAY_MINUTES * 60

(* "stop if run time exceeds 24 hours"                                     *)
CeilingExceeded(c) == c > DAY_MINUTES

\* the run-mode section reading a clock that stands still
RunSectionFrozenClock(S, adv) ==
  IF ~S.run_mode THEN { S }
  ELSE LET c  == S.el + S.last_time * 6
           S1 == [S EXCEPT !.station_active = FALSE, !.ct = c]
           S2 == IF CeilingExceeded(c)
                 THEN [stop_runmode(S1) EXCEPT
                         !.lt = c,
                         !.serial = @ \cup {"Run exceeded 24 hours. Stopping."}]
                 ELSE S1
       IN IF S2.lt # S2.ct THEN Evaluate(S2) ELSE { S2 }

(* the run-mode section of loop(), the clock having advanced by adv units  *)
RunSection(S, adv) ==
  IF ~S.run_mode THEN { S }
  ELSE LET e  == S.el + adv
           c  == e + S.last_time * 6
           S1 == [S EXCEPT !.station_active = FALSE, !.el = e, !.ct = c]
           S2 == IF CeilingExceeded(c)
                 THEN [stop_runmode(S1) EXCEPT
                         !.lt = c,
                         !.serial = @ \cup {"Run exceeded 24 hours. Stopping."}]
                 ELSE S1
       IN UNION { IF T.lt # T.ct THEN Evaluate(T) ELSE { T } : T \in { S2 } }

-----------------------------------------------------------------------------
(* loop(): the button edges, in the order the sketch tests them            *)

ButtonLine(n) ==
  CASE n = 1 -> "button 1 LOW"
    [] n = 2 -> "button 2 LOW"
    [] n = 3 -> "button 3 LOW"
    [] n = 4 -> "button 4 LOW"
    [] OTHER -> "button 8 LOW"

Pressed(S, n) == [S EXCEPT !.debounce = DEBOUNCE,
                           !.serial = @ \cup {ButtonLine(n)}]

(* button 8: fast mode toggle                                              *)
Button8(S) ==
  LET S1 == [Pressed(S, 8) EXCEPT !.fast_mode = ~S.fast_mode]
  IN IF S1.run_mode
     THEN [S1 EXCEPT !.last_time = (S1.ct \div 6) % 256, !.el = 0]
     ELSE S1

(* button 1: "++prog", wrapped past the last program                       *)
IncProg(pr) == IF (pr + 1) % 256 > PROGS - 1 THEN 0 ELSE (pr + 1) % 256

\* the program cycle without its skip to the backwash program
NextProgNoSkip(pr) == IncProg(pr)

(* button 1: the program cycle 0,1,2,3,4,5,9                               *)
NextProg(pr) == IF IncProg(pr) > MAX_PROG THEN PROGS - 1 ELSE IncProg(pr)

(* button 1: mode                                                          *)
Button1(S) ==
  LET S0 == Pressed(S, 1)
      S1 == IF S0.prog = 0 THEN stop_runmode(S0)
            ELSE [S0 EXCEPT !.EEPROM =
                     update_eeprom(S0.EEPROM, S0.prog, S0.station, S0.duration)]
      S2 == IF S0.prog # 0
            THEN [S1 EXCEPT !.EEPROM = update_checksum(S1.EEPROM)]
            ELSE S1
      q   == NextProg(S0.prog)
      stn == IF q = 0 THEN 0
             ELSE IF IncProg(S0.prog) > MAX_PROG THEN 1
             ELSE 3
  IN [S2 EXCEPT !.prog = q, !.station = stn,
                !.duration = IF q = 0 THEN 0 ELSE read_eeprom(S2.EEPROM, q, stn)]

(* button 2 in program mode: the station cursor                            *)
NextStation(pr, s) ==
  LET s1 == IF s + 1 >= STATIONS - 3 THEN 1 ELSE s + 1
      s2 == IF pr = PROGS - 1 /\ s1 >= 3 THEN 13 ELSE s1
  IN IF pr # PROGS - 1
     THEN (IF s2 < 3 \/ s2 > 7 THEN 3 ELSE s2)
     ELSE s2

(* button 2: advance / run selector                                        *)
Button2(S) ==
  LET S0 == Pressed(S, 2)
  IN IF S0.prog # 0
     THEN LET E1 == update_eeprom(S0.EEPROM, S0.prog, S0.station, S0.duration)
              s1 == NextStation(S0.prog, S0.station)
          IN [S0 EXCEPT !.EEPROM = E1, !.station = s1,
                        !.duration = read_eeprom(E1, S0.prog, s1)]
     ELSE IF ~S0.run_mode
          THEN [S0 EXCEPT !.station = IF (S0.station + 1) % 256 > MAX_PROG
                                      THEN 0 ELSE (S0.station + 1) % 256]
          ELSE S0

\* the next duration without the extra step of the filter stations
NextDurationNoExtra(pr, s, d) ==
  LET d1 == (((d \div 5) + 1) * 5) % 256
  IN IF d1 > MAX_DURATION THEN 0 ELSE d1

(* button 3 in program mode: the next duration                             *)
NextDuration(pr, s, d) ==
  LET d1 == (((d \div 5) + 1) * 5) % 256
      d2 == IF pr = PROGS - 1 /\ s < 3 THEN (d1 + 5) % 256 ELSE d1
  IN IF d2 > MAX_DURATION THEN 0 ELSE d2

\* the start condition without its "prog==0" test
MayStartAnyProg(S) == ~S.run_mode

(* button 3: the condition under which it starts a run                     *)
MayStart(S) == S.prog = 0 /\ ~S.run_mode

(* button 3: start / increment                                             *)
Button3(S) ==
  LET S0 == Pressed(S, 3)
  IN IF MayStart(S0) THEN start_runmode(S0)
     ELSE IF S0.prog # 0
          THEN [S0 EXCEPT !.duration = NextDuration(S0.prog, S0.station, S0.duration)]
          ELSE S0

(* button 4: clear / stop                                                  *)
Button4(S) ==
  LET S0 == Pressed(S, 4)
      S1 == IF S0.prog # 0 /\ ~S0.run_mode THEN [S0 EXCEPT !.duration = 0] ELSE S0
  IN IF S1.run_mode THEN stop_runmode(S1) ELSE S1

ButtonIds == {1, 2, 3, 4, 8}

(* the edges B seen in one pass, handled in the order 8, 1, 2, 3, 4        *)
Buttons(S, B) ==
  LET S8 == IF 8 \in B THEN Button8(S) ELSE S
      S1 == IF 1 \in B THEN Button1(S8) ELSE S8
      S2 == IF 2 \in B THEN Button2(S1) ELSE S1
      S3 == IF 3 \in B THEN Button3(S2) ELSE S2
  IN IF 4 \in B THEN Button4(S3) ELSE S3

-----------------------------------------------------------------------------
(* Bounds of the exploration                                               *)

\* clock units that may pass after start_time was last set
MaxEl == 7
\* events of one behaviour: loop() passes that see a button edge, and
\* power cycles
MaxEvents == 3

\* the button edges one pass may see: each button alone, and some pairs
EdgeSets == { {1}, {2}, {3}, {4}, {8}, {1, 3}, {3, 4}, {4, 8} }

-----------------------------------------------------------------------------
(* The state machine                                                       *)

Mem == [ EEPROM |-> EEPROM, run_mode |-> run_mode, fast_mode |-> fast_mode,
         prog |-> prog, station |-> station, duration |-> duration,
         last_time |-> last_time, backwash_delay |-> backwash_delay,
         debounce |-> debounce, ct |-> ct, lt |-> lt, bt |-> bt,
         remaining |-> remaining, st |-> st,
         station_active |-> station_active, relays |-> relays, el |-> el,
         serial |-> {} ]

Store(S) ==
  /\ EEPROM' = S.EEPROM
  /\ run_mode' = S.run_mode
  /\ fast_mode' = S.fast_mode
  /\ prog' = S.prog
  /\ station' = S.station
  /\ duration' = S.duration
  /\ last_time' = S.last_time
  /\ backwash_delay' = S.backwash_delay
  /\ debounce' = S.debounce
  /\ ct' = S.ct
  /\ lt' = S.lt
  /\ bt' = S.bt
  /\ remaining' = S.remaining
  /\ st' = S.st
  /\ station_active' = S.station_active
  /\ relays' = S.relays
  /\ el' = S.el
  /\ serial' = S.serial

(* the clock advances only as far as the run section reads it              *)
Advances == IF run_mode /\ el < MaxEl THEN {0, 1} ELSE {0}

(* a pass of loop() with no button edge                                    *)
LoopQuiet ==
  /\ pc = "run"
  /\ debounce = 0
  /\ \E adv \in Advances : \E S \in RunSection(Mem, adv) : Store(S)
  /\ UNCHANGED << nev, pc, fault >>

(* the 32 passes of loop() that follow a button edge                       *)
LoopDebounce ==
  /\ pc = "run"
  /\ debounce # 0
  /\ \E M \in { Mem } : \E S \in RunSection(M, 0) :
       \E S1 \in { [S EXCEPT !.debounce = 0] } : Store(S1)
  /\ UNCHANGED << nev, pc, fault >>

(* a pass of loop() that sees the button edges B                           *)
LoopPress ==
  /\ pc = "run"
  /\ debounce = 0
  /\ nev < MaxEvents
  /\ \E B \in EdgeSets : \E S \in RunSection(Mem, 0) : Store(Buttons(S, B))
  /\ nev' = nev + 1
  /\ UNCHANGED << pc, fault >>

(* power is lost and restored: setup() runs on the EEPROM as it stands     *)
PowerCycle ==
  /\ pc = "run"
  /\ nev < MaxEvents
  /\ Store(setup(EEPROM))
  /\ nev' = nev + 1
  /\ UNCHANGED << pc, fault >>

-----------------------------------------------------------------------------
(* EEPROM contents found at power-on                                       *)

\* erased flash
BlankEeprom == [a \in Addrs |-> 255]

RECURSIVE WriteCells(_, _)
WriteCells(E, cells) ==
  IF cells = {} THEN E
  ELSE LET c == CHOOSE x \in cells : TRUE
       IN WriteCells(update_eeprom(E, c[1], c[2], c[3]), cells \ {c})

\* a table with a stored checksum, a run-state flag, a selector, a
\* wear-level index and a value in the live log slot
Image(cells, status, sel, idx, slot) ==
  LET E0 == update_checksum(WriteCells([a \in Addrs |-> 0], cells))
      E1 == EepromWrite(E0, STATUS, status)
      E2 == EepromWrite(E1, LAST_PROG, sel)
      E3 == EepromWrite(E2, LAST_TIME_INDEX, idx)
  IN EepromWrite(E3, LAST_TIME_BASE + idx, slot)

\* program 1: station 3 for 60 minutes; backwash 1 min, 1 min, 30 min
TableHour == { <<1, 3, 10>>, <<9, 1, 10>>, <<9, 2, 10>>, <<9, 13, 5>> }
\* program 2: four stations of 8 hours
TableLong == { <<2, 3, 80>>, <<2, 4, 80>>, <<2, 5, 80>>, <<2, 6, 80>> }
\* programs 1 and 3 with 6 minute stations, station 4 of program 1 unused;
\* backwash 1 min, 2 min, 6 min
TableShort == { <<1, 3, 1>>, <<1, 5, 1>>, <<3, 3, 1>>, <<3, 4, 1>>,
                <<9, 1, 10>>, <<9, 2, 20>>, <<9, 13, 1>> }

Images ==
  { BlankEeprom,
    Image(TableHour, 0, 0, 0, 0),
    Image(TableHour, 1, 1, 15, 9),
    Image(TableLong, 1, 2, 15, 239),
    Image(TableLong, 1, 0, 7, 241),
    Image(TableShort, 1, 0, 0, 0),
    Image(TableShort, 1, 1, 3, 1) }

(* the memory S as the initial state                                       *)
Load(S) ==
  /\ EEPROM = S.EEPROM
  /\ run_mode = S.run_mode
  /\ fast_mode = S.fast_mode
  /\ prog = S.prog
  /\ station = S.station
  /\ duration = S.duration
  /\ last_time = S.last_time
  /\ backwash_delay = S.backwash_delay
  /\ debounce = S.debounce
  /\ ct = S.ct
  /\ lt = S.lt
  /\ bt = S.bt
  /\ remaining = S.remaining
  /\ st = S.st
  /\ station_active = S.station_active
  /\ relays = S.relays
  /\ el = S.el
  /\ serial = S.serial

NoFault == [ addr |-> 0, old |-> 0, new |-> 0 ]

Init ==
  /\ pc = "run"
  /\ fault = NoFault
  /\ nev = 0
  /\ \E E \in Images :
       Load(setup(E))

Next == LoopQuiet \/ LoopDebounce \/ LoopPress \/ PowerCycle

Spec == Init /\ [][Next]_vars

-----------------------------------------------------------------------------
(* Runs left to themselves: the operator acts only while no run is in      *)
(* progress, power stays on, loop() keeps being called and millis() keeps  *)
(* growing.  A run lasts at most 1441 clock units, which bounds el.        *)

MaxIdleEvents == 2

IdleEdges == { {n} : n \in ButtonIds }

(* a pass of loop() that sees a button edge while no run is in progress    *)
IdlePress ==
  /\ pc = "run"
  /\ ~run_mode
  /\ debounce = 0
  /\ nev < MaxIdleEvents
  /\ \E B \in IdleEdges : \E S \in RunSection(Mem, 0) : Store(Buttons(S, B))
  /\ nev' = nev + 1
  /\ UNCHANGED << pc, fault >>

(* a pass of loop() during a run that reads the clock unchanged            *)
Poll ==
  /\ pc = "run"
  /\ run_mode
  /\ debounce = 0
  /\ \E S \in RunSection(Mem, 0) : Store(S)
  /\ UNCHANGED << nev, pc, fault >>

(* the first pass of loop() during a run that reads the clock one unit on  *)
Tick ==
  /\ pc = "run"
  /\ run_mode
  /\ debounce = 0
  /\ \E M \in { Mem } : \E S \in RunSection(M, 1) : Store(S)
  /\ UNCHANGED << nev, pc, fault >>

NextLive == IdlePress \/ LoopDebounce \/ Poll \/ Tick

SpecLive ==
  /\ Init
  /\ [][NextLive]_vars
  /\ WF_vars(LoopDebounce)
  /\ WF_vars(Tick)

-----------------------------------------------------------------------------
(* A harness for checksum(), update_checksum() and the boot-time check:    *)
(* table bytes are written, the checksum is stored, a byte of the table    *)
(* may then be changed behind the sketch's back, and setup() runs.         *)

CkCells == { << 1, 3 >>, << 9, 13 >> }
CkValues == { 0, 7, 255 }
FaultValues == { 0, 1, 255 }

\* tables of all 0 and of all 255, no checksum stored yet; and a zero table
\* left by a run of program 2 in progress: log slot 3 live and holding 9
CkBases ==
  { [a \in Addrs |-> IF a \in TableAddrs THEN v ELSE 0] : v \in {0, 255} } \cup
  { [a \in Addrs |-> CASE a = STATUS -> 1
                       [] a = LAST_PROG -> 2
                       [] a = LAST_TIME_INDEX -> 3
                       [] a = LAST_TIME_BASE + 3 -> 9
                       [] OTHER -> 0] }

PowerOff(E) ==
  [ EEPROM |-> E, run_mode |-> FALSE, fast_mode |-> FALSE, prog |-> 0,
    station |-> 0, duration |-> 0, last_time |-> 0, backwash_delay |-> 0,
    debounce |-> 0, ct |-> 0, lt |-> 0, bt |-> 0, remaining |-> Zeros,
    st |-> Zeros, station_active |-> FALSE, relays |-> 0, el |-> 0,
    serial |-> {} ]

InitCk ==
  /\ pc = "edit"
  /\ fault = NoFault
  /\ nev = 0
  /\ \E E \in CkBases :
       Load(PowerOff(E))

(* update_eeprom(p, s, v)                                                  *)
CkWrite ==
  /\ pc = "edit"
  /\ \E c \in CkCells : \E v \in CkValues :
       EEPROM' = update_eeprom(EEPROM, c[1], c[2], v)
  /\ UNCHANGED << run_mode, fast_mode, prog, station, duration, last_time,
                  backwash_delay, debounce, ct, lt, bt, remaining, st,
                  station_active, relays, el, serial, nev, pc, fault >>

(* update_checksum()                                                       *)
CkStore ==
  /\ pc = "edit"
  /\ EEPROM' = update_checksum(EEPROM)
  /\ pc' = "stored"
  /\ UNCHANGED << run_mode, fast_mode, prog, station, duration, last_time,
                  backwash_delay, debounce, ct, lt, bt, remaining, st,
                  station_active, relays, el, serial, nev, fault >>

(* one byte of the persisted table takes another value                     *)
CkFault ==
  /\ pc = "stored"
  /\ \E a \in TableAddrs : \E v \in FaultValues :
       /\ v # EEPROM[a]
       /\ EEPROM' = [EEPROM EXCEPT ![a] = v]
       /\ fault' = [ addr |-> a, old |-> EEPROM[a], new |-> v ]
  /\ pc' = "faulted"
  /\ UNCHANGED << run_mode, fast_mode, prog, station, duration, last_time,
                  backwash_delay, debounce, ct, lt, bt, remaining, st,
                  station_active, relays, el, serial, nev >>

(* setup()                                                                 *)
CkBoot ==
  /\ pc \in { "stored", "faulted" }
  /\ Store(setup(EEPROM))
  /\ pc' = IF pc = "stored" THEN "booted" ELSE "rebooted"
  /\ UNCHANGED << nev, fault >>

NextCk == CkWrite \/ CkStore \/ CkFault \/ CkBoot

SpecCk == InitCk /\ [][NextCk]_vars

TableZero(E) == \A a \in TableAddrs : E[a] = 0

\* C1: Checksum round-trip.  For every table, right after update_checksum()
\* the stored checksum, masked to 15 bits, equals checksum(); setup() run at
\* that point does not print "Init EEPROM...", i.e. takes no table reset.
ChecksumRoundTrip ==
  /\ pc = "stored" => ChecksumValid(EEPROM)
  /\ pc = "booted" => /\ "Init EEPROM..." \notin serial
                      /\ ChecksumValid(EEPROM)

\* C1 witness: a boot after update_checksum() on a table that is not all
\* zero, whose unmasked checksum has its top bit set, and that kept its bytes
ChecksumRoundTripWitness ==
  /\ pc = "booted"
  /\ "Init EEPROM..." \notin serial
  /\ ~TableZero(EEPROM)
  /\ ChecksumUnmasked(EEPROM) >= 32768

\* C2 as stated: after any single-byte change of a table with a valid stored
\* checksum, booting leaves all 160 entries 0 and the stored checksum valid.
SelfHealAnyByte ==
  pc = "rebooted" => TableZero(EEPROM) /\ ChecksumValid(EEPROM)

\* the byte change leaves both Fletcher sums as they were: 0 <-> 255
FaultModulo255 == (fault.new - fault.old) % 255 = 0

\* C2 amended: after a single-byte change whose old and new value differ
\* modulo 255 (any change but 0 <-> 255), booting prints "Init EEPROM...",
\* leaves all 160 entries 0 and the stored checksum valid.
SelfHealDetectable ==
  (pc = "rebooted" /\ ~FaultModulo255) =>
     /\ "Init EEPROM..." \in serial
     /\ TableZero(EEPROM)
     /\ ChecksumValid(EEPROM)

\* C2 witness: a boot that healed a table byte changed from 255 or 7 to 1
SelfHealWitness ==
  /\ pc = "rebooted"
  /\ ~FaultModulo255
  /\ fault.old # 0
  /\ "Init EEPROM..." \in serial
  /\ TableZero(EEPROM)

-----------------------------------------------------------------------------
(* A harness for the irrigation program evaluation of loop(): a table, a   *)
(* selector and a tick value are chosen, and the for loop over the         *)
(* programs runs once from cleared st[] and remaining[].                   *)

EvalDurations == { 0, 1, 10, 255 }
EvalSelectors == 1 .. MAX_PROG
EvalTimes == { 0, 5, 6, 7, 11, 12, 59, 60, 61, 66, 120, 1440, 1536, 7649, 7650 }

\* stations 3..7 of program p hold d; another program holds durations too
EvalTable(p, d) ==
  { << p, s, d[s] >> : s \in 3 .. 7 } \cup
  { << (IF p = 1 THEN 2 ELSE 1), 3, 1 >>, << (IF p = 1 THEN 2 ELSE 1), 6, 10 >> }

InitEval ==
  /\ pc = "selected"
  /\ fault = NoFault
  /\ nev = 0
  /\ \E p \in EvalSelectors : \E d \in [3 .. 7 -> EvalDurations] : \E c \in EvalTimes :
       Load([PowerOff(WriteCells([a \in Addrs |-> 0], EvalTable(p, d))) EXCEPT
                    !.run_mode = TRUE, !.station = p, !.ct = c])

(* "for(p=1;p < (PROGS-1); p++) { // check each program ... }"             *)
EvalStep ==
  /\ pc = "selected"
  /\ LET R == EvalPrograms(EEPROM, 1, station, ct,
                 [ st |-> Zeros, remaining |-> Zeros, station_active |-> FALSE ])
     IN /\ st' = R.st
        /\ remaining' = R.remaining
        /\ station_active' = R.station_active
  /\ pc' = "evaluated"
  /\ UNCHANGED << EEPROM, run_mode, fast_mode, prog, station, duration,
                  last_time, backwash_delay, debounce, ct, lt, bt, relays, el,
                  serial, nev, fault >>

NextEval == EvalStep

SpecEval == InitEval /\ [][NextEval]_vars

RECURSIVE Cumulative(_, _, _)
\* 6 * (d3 + ... + ds) for program p, in minutes
Cumulative(E, p, s) ==
  IF s < 3 THEN 0 ELSE Cumulative(E, p, s - 1) + 6 * read_eeprom(E, p, s)

\* the stations of program p whose cumulative end lies beyond c
Unfinished(E, p, c) == { s \in 3 .. 7 : Cumulative(E, p, s) > c }

SetMin(X) == CHOOSE x \in X : \A y \in X : x <= y

\* C3: Evaluator.  For a single selected program p in 1..5 and every tick ct,
\* the station marked active is exactly the smallest s with
\* 6*(d3+...+ds) > ct, its remaining time is 6*(d3+...+ds) - ct, every other
\* station is unmarked with remaining time 0, and no station is active
\* (station_active false) when 6*sum(d) <= ct.
EvaluatorFirstUnfinished ==
  pc = "evaluated" =>
    LET U == Unfinished(EEPROM, station, ct)
    IN /\ station_active = (U # {})
       /\ \A s \in 0 .. (STATIONS - 1) :
            IF U # {} /\ s = SetMin(U)
            THEN st[s] = 1 /\ remaining[s] = Cumulative(EEPROM, station, s) - ct
            ELSE st[s] = 0 /\ remaining[s] = 0

\* C3 witness: station 3 = 10 and the rest 0, evaluated at ct = 59: station 3
\* is active with 1 minute remaining
EvaluatorWitness ==
  /\ pc = "evaluated"
  /\ read_eeprom(EEPROM, station, 3) = 10
  /\ \A s \in 4 .. 7 : read_eeprom(EEPROM, station, s) = 0
  /\ ct = 59
  /\ st[3] = 1
  /\ remaining[3] = 1

-----------------------------------------------------------------------------
(* Properties of the controller (Spec)                                     *)

ButtonLines == { ButtonLine(n) : n \in ButtonIds }

\* the last pass of loop() ran the schedule evaluation
Evaluated == "Active stations: " \in serial \/ "Run complete." \in serial

\* the last pass of loop() ran the run-mode section to an outcome and
\* handled no button edge after it
RunPass ==
  /\ \/ Evaluated
     \/ "Run exceeded 24 hours. Stopping." \in serial
  /\ serial \cap ButtonLines = {}

StatusByte == EepromRead(EEPROM, STATUS)

LiveSlot == EepromRead(EEPROM, LAST_TIME_BASE + EepromRead(EEPROM, LAST_TIME_INDEX))

Table(E) == [a \in TableAddrs |-> E[a]]

\* C4 as stated: a pass that evaluates a tick with ct >= 1440 ends with Run
\* State off and no station driven.
CeilingFrom1440 ==
  (RunPass /\ ct >= DAY_MINUTES) => (~run_mode /\ relays = 0)

\* C4 amended: the ceiling is ct > 1440.  A run never holds ct > 1440 at the
\* end of a pass: the pass that reads ct > 1440 stops the run, persists the
\* off state and drives no relay, whatever the table holds; ct = 1440 is
\* still evaluated as an ordinary tick.
CeilingAbove1440 ==
  /\ run_mode => ct <= DAY_MINUTES
  /\ ct > DAY_MINUTES => (~run_mode /\ relays = 0 /\ StatusByte = 0)
  /\ "Run exceeded 24 hours. Stopping." \in serial => ct > DAY_MINUTES

\* C4 witness: the pass that read ct = 1441 of a schedule that runs for 32
\* hours stopped the run
CeilingWitness ==
  /\ "Run exceeded 24 hours. Stopping." \in serial
  /\ ct = DAY_MINUTES + 1
  /\ Cumulative(EEPROM, station, 7) > ct
  /\ ~run_mode
  /\ relays = 0

StopIsImmediate ==
  /\ [](~run_mode => relays = 0)
  /\ [][ (run_mode /\ ~run_mode' /\ "*** INIT" \notin serial') =>
           (relays' = 0 /\ EepromRead(EEPROM', STATUS) = 0) ]_vars

\* C6 witness: the stop button ended a run whose station 3 was being driven
StopWitness ==
  /\ ~run_mode
  /\ "button 4 LOW" \in serial
  /\ st[3] = 1
  /\ relays = 0
  /\ StatusByte = 0

\* C7: Recovery rejection.  After a boot that finds the persisted run-state
\* flag on and a live log slot above 240, Run State is off, the recovered
\* elapsed time is 0 and no relay is driven; and while the live slot holds a
\* value above 240 no run is in progress (a start makes a fresh slot live).
RecoveryRejected ==
  /\ ("*** INIT" \in serial /\ StatusByte # 0 /\ LiveSlot > MAX_LAST_TIME) =>
        (~run_mode /\ last_time = 0 /\ lt = 0 /\ relays = 0)
  /\ LiveSlot > MAX_LAST_TIME => ~run_mode

\* C7 witness: the boot found run-state on and 241 in the live slot
RecoveryRejectedWitness ==
  /\ "*** INIT" \in serial
  /\ "Init EEPROM..." \notin serial
  /\ StatusByte = 1
  /\ LiveSlot = MAX_LAST_TIME + 1
  /\ ~run_mode

RECURSIVE IndexAfter(_, _)
\* the wear-level index after k starts from index i
IndexAfter(i, k) == IF k = 0 THEN i ELSE NextIndex(IndexAfter(i, k - 1))

\* C8: Wear-leveling rotation.  Every start_runmode sets the persisted index
\* to (index + 1) mod 16 and writes 0 into the newly live slot; from any
\* index in 0..15, 16 consecutive starts make each of the 16 slots live
\* exactly once and return to the first; the index stays in 0..15.
WearLevelRotation ==
  /\ [](EepromRead(EEPROM, LAST_TIME_INDEX) \in 0 .. (LAST_TIME_SIZE - 1))
  /\ \A i \in 0 .. (LAST_TIME_SIZE - 1) :
       /\ { IndexAfter(i, k) : k \in 1 .. LAST_TIME_SIZE } = 0 .. (LAST_TIME_SIZE - 1)
       /\ IndexAfter(i, LAST_TIME_SIZE) = i
  /\ [][ "start runmode" \in serial' =>
           /\ EepromRead(EEPROM', LAST_TIME_INDEX)
                = (EepromRead(EEPROM, LAST_TIME_INDEX) + 1) % 16
           /\ EepromRead(EEPROM', LAST_TIME_BASE + EepromRead(EEPROM', LAST_TIME_INDEX)) = 0
           /\ \A a \in LogAddrs :
                a # LAST_TIME_BASE + EepromRead(EEPROM', LAST_TIME_INDEX)
                  => EepromRead(EEPROM', a) = EepromRead(EEPROM, a) ]_vars

\* C8 witness: a start moved the index from 15 to 0
WearLevelWitness ==
  /\ "start runmode" \in serial
  /\ run_mode
  /\ EepromRead(EEPROM, LAST_TIME_INDEX) = 0
  /\ LiveSlot = 0

\* C9: Edit/run exclusion.  Running implies prog = 0; a pass of loop()
\* changes the program table only if Run State was off before it, and
\* start_runmode runs only with Run State off (off before the pass, or
\* switched off by the run section of the same pass).
EditRunExclusion ==
  /\ [](run_mode => prog = 0)
  /\ [][ (Table(EEPROM') # Table(EEPROM) /\ "*** INIT" \notin serial') => ~run_mode ]_vars
  /\ [][ "start runmode" \in serial' =>
           \/ ~run_mode
           \/ "Run complete." \in serial'
           \/ "Run exceeded 24 hours. Stopping." \in serial' ]_vars

\* C9 witness: the advance button stored an edited duration while idle
EditWitness ==
  /\ ~run_mode
  /\ prog = 1
  /\ "button 2 LOW" \in serial
  /\ read_eeprom(EEPROM, 1, 3) = 5

\* C10: Backwash gating.  After every pass that evaluated the schedule and
\* found no irrigation station (3..12) active, none of the backwash stations
\* 1, 2, 13 is marked active or has a remaining time.
BackwashGated ==
  (Evaluated /\ \A s \in 3 .. 12 : st[s] = 0) =>
     \A s \in {1, 2, 13} : st[s] = 0 /\ remaining[s] = 0

\* C10 witness: the schedule completed at a tick inside a backwash cycle that
\* had been running (delay consumed, reference behind ct, filters programmed)
BackwashGatedWitness ==
  /\ "Run complete." \in serial
  /\ backwash_delay = 0
  /\ bt <= ct
  /\ read_eeprom(EEPROM, PROGS - 1, 13) > 0
  /\ BwAccumulate(EEPROM, 0, bt, ct)[2] > ct

\* C11: Completion.  A pass of loop() that evaluated the schedule and found
\* no irrigation station (3..12) active printed "Run complete." and, unless
\* the start button was handled later in the same pass, ends with Run State
\* off, the persisted run-state flag off and the relay register 0; and every
\* pass that printed "Run complete." found no station active.
RunCompletes ==
  /\ (Evaluated /\ \A s \in 3 .. 12 : st[s] = 0) => "Run complete." \in serial
  /\ "Run complete." \in serial => \A s \in 0 .. (STATIONS - 1) : st[s] = 0
  /\ ("Run complete." \in serial /\ "start runmode" \notin serial) =>
        (~run_mode /\ StatusByte = 0 /\ relays = 0)

\* C11 witness: program 1 (stations 3 and 5 of 6 minutes) resumed at minute 6
\* was evaluated at ct = 12, its total, and the run stopped
RunCompletesWitness ==
  /\ "Run complete." \in serial
  /\ station = 1
  /\ Cumulative(EEPROM, 1, 7) = 12
  /\ ct = 12
  /\ ~run_mode
  /\ StatusByte = 0
  /\ relays = 0

\* the 16 log slots of an EEPROM image
LogSlots(E) == [a \in LogAddrs |-> E[a]]

\* C12 as stated: Once-per-tick gating.  While running, a pass that computes
\* ct equal to lt evaluates nothing and writes no log slot; and from the
\* first evaluation of a run on, lt never decreases from one pass to the next
\* while the run lasts (boots and new starts apart).
OncePerTickGate ==
  /\ [][ ( /\ run_mode
           /\ ct' = lt
           /\ "*** INIT" \notin serial'
           /\ "start runmode" \notin serial' )
         => ( /\ "Active stations: " \notin serial'
              /\ "Run complete." \notin serial'
              /\ LogSlots(EEPROM') = LogSlots(EEPROM) ) ]_vars
  /\ [][ ( /\ run_mode /\ run_mode'
           /\ lt # LT_RESTART
           /\ "*** INIT" \notin serial'
           /\ "start runmode" \notin serial' )
         => lt' >= lt ]_vars

\* C13: Boot reset on checksum mismatch.  Every run of setup() that finds
\* the stored checksum (masked to 15 bits) different from checksum() prints
\* "Init EEPROM..." and leaves all 160 table entries 0, the stored checksum
\* valid, the persisted run-state flag and run_mode off, the wear-level index
\* 0 and log slot 0 holding 0.
BootResetOnMismatch ==
  [][ (pc' \in {"booted", "rebooted"} /\ ~ChecksumValid(EEPROM)) =>
        /\ "Init EEPROM..." \in serial'
        /\ TableZero(EEPROM')
        /\ ChecksumValid(EEPROM')
        /\ EepromRead(EEPROM', STATUS) = 0
        /\ ~run_mode'
        /\ last_time' = 0
        /\ EepromRead(EEPROM', LAST_TIME_INDEX) = 0
        /\ EepromRead(EEPROM', LAST_TIME_BASE) = 0 ]_vars

\* C13 witness: the boot reset a table found changed while the run-state
\* flag was on and log slot 3 was live; slot 3 and the selector are kept
BootResetWitness ==
  /\ pc = "rebooted"
  /\ "Init EEPROM..." \in serial
  /\ TableZero(EEPROM)
  /\ StatusByte = 0
  /\ ~run_mode
  /\ EepromRead(EEPROM, LAST_TIME_INDEX) = 0
  /\ EepromRead(EEPROM, LAST_PROG) = 2
  /\ EepromRead(EEPROM, LAST_TIME_BASE + 3) = 9

\* C14: Every run ends.  With loop() called for ever and the clock growing,
\* and no button pressed during the run, every state with Run State running
\* (started by the operator or resumed by a boot) is followed by a state
\* with Run State off, for every table and selector.
EveryRunEnds == run_mode ~> ~run_mode

\* C14 witness: a run started by the operator ran into the 24 hour ceiling
\* at its 1441st minute
EveryRunEndsWitness ==
  /\ ~run_mode
  /\ "Run exceeded 24 hours. Stopping." \in serial
  /\ last_time = 0
  /\ el = DAY_MINUTES + 1
  /\ ct = DAY_MINUTES + 1

\* the value the run section computes for ct from the clock as it stands
CtRead == el + last_time * 6

\* C15 as stated: Speed-up toggle continuity.  A pass that handles the
\* button 8 edge during a run changes no table entry, and the value of ct
\* computed right after it equals the value of ct before it.
ToggleContinuity ==
  /\ [](("button 8 LOW" \in serial /\ run_mode /\ "start runmode" \notin serial)
          => CtRead = ct)
  /\ [][ ("button 8 LOW" \in serial' /\ run_mode /\ run_mode')
           => Table(EEPROM') = Table(EEPROM) ]_vars

\* C16: Resume after power loss.  Every boot that interrupts a run whose last
\* evaluated tick was lt <= 1440 resumes it: Run State is running, the
\* program selector is the one of the interrupted run, and the recovered
\* elapsed time is 6 * (lt \div 6), hence at most lt and more than lt - 6.
\* A boot that interrupts a run before its first evaluation resumes it at 0.
ResumeAfterPowerLoss ==
  [][ ("*** INIT" \in serial' /\ run_mode) =>
        /\ (lt # LT_RESTART /\ lt <= DAY_MINUTES) =>
              /\ run_mode'
              /\ station' = station
              /\ last_time' * 6 = 6 * (lt \div 6)
              /\ CtRead' = 6 * (lt \div 6)
              /\ CtRead' <= lt /\ lt - CtRead' < 6
              /\ relays' = 0
        /\ lt = LT_RESTART => (run_mode' /\ station' = station /\ CtRead' = 0) ]_vars

\* C16 witness: the boot resumed program 2 at minute 1440, the last tick
\* a run evaluates
ResumeWitness ==
  /\ "*** INIT" \in serial
  /\ run_mode
  /\ station = 2
  /\ last_time = MAX_LAST_TIME
  /\ lt = DAY_MINUTES
  /\ LiveSlot = MAX_LAST_TIME

\* the cumulative thresholds of the three backwash stages counted from b
BwThreshold(E, b, k) ==
  b + (IF k >= 1 THEN read_eeprom(E, PROGS - 1, 1) \div 10 ELSE 0)
    + (IF k >= 2 THEN read_eeprom(E, PROGS - 1, 2) \div 10 ELSE 0)
    + (IF k >= 3 THEN read_eeprom(E, PROGS - 1, 13) * 6 ELSE 0)

\* the backwash stations marked active in st[]
BwMarked(stv) == { s \in {1, 2, 13} : stv[s] = 1 }

\* C17 as stated: Backwash cycle.  A pass that evaluates a tick with
\* irrigation active and the startup delay consumed before it marks at most
\* one of stations 1, 2, 13: the first stage k (stations 1, 2, 13 in that
\* order) whose threshold counted from bt exceeds ct, with remaining time
\* threshold - ct; when ct has reached the third threshold it marks none and
\* sets bt to ct + 1.
BackwashCycle ==
  [][ ( /\ run_mode
        /\ backwash_delay = 0
        /\ "Active stations: " \in serial'
        /\ "start runmode" \notin serial' )
      => LET T(k) == BwThreshold(EEPROM, bt, k)
             c == ct'
         IN /\ T(1) > c =>
                 (BwMarked(st') = {1} /\ remaining'[1] = T(1) - c /\ bt' = bt)
            /\ (T(1) <= c /\ T(2) > c) =>
                 (BwMarked(st') = {2} /\ remaining'[2] = T(2) - c /\ bt' = bt)
            /\ (T(2) <= c /\ T(3) > c) =>
                 (BwMarked(st') = {13} /\ remaining'[13] = T(3) - c /\ bt' = bt)
            /\ T(3) <= c => (BwMarked(st') = {} /\ bt' = c + 1) ]_vars

-----------------------------------------------------------------------------
(* The program loop of loop() under every selector: tables that hold       *)
(* durations in programs 0..8, cells of programs 0 and 6..8 included,      *)
(* which the buttons never write but the loop and the checksum read.       *)

AllCells == { << 0, 3 >>, << 1, 3 >>, << 1, 4 >>, << 2, 3 >>, << 5, 4 >>,
              << 6, 3 >>, << 8, 4 >> }
AllDurations == { 0, 1, 10 }
AllSelectors == 0 .. MAX_PROG
AllTimes == { 0, 5, 6, 11, 12, 59, 60, 66 }

InitAll ==
  /\ pc = "selected"
  /\ fault = NoFault
  /\ nev = 0
  /\ \E sel \in AllSelectors : \E d \in [AllCells -> AllDurations] : \E c \in AllTimes :
       Load([PowerOff(WriteCells([a \in Addrs |-> 0],
                                 { << x[1], x[2], d[x] >> : x \in AllCells })) EXCEPT
               !.run_mode = TRUE, !.station = sel, !.ct = c])

SpecAll == InitAll /\ [][NextEval]_vars

\* the programs the selector stands for in the program list of the UI
Contributing(sel) == IF sel = 0 THEN 1 .. MAX_PROG ELSE { sel }

\* the programs of P whose active station at tick c is s
Nominating(E, P, s, c) ==
  { p \in P : Unfinished(E, p, c) # {} /\ SetMin(Unfinished(E, p, c)) = s }

SetMax(X) == CHOOSE x \in X : \A y \in X : x >= y

\* C18 as stated: Run-all selector.  After the program loop, a station is
\* marked iff it is the active station of one of the programs the selector
\* stands for (1..5 for selector 0, p alone for selector p), and its
\* remaining time is the largest cumulative - ct among those programs;
\* cells of programs 0 and 6..8 have no influence.
RunAllPrograms1to5 ==
  pc = "evaluated" =>
    \A s \in 0 .. (STATIONS - 1) :
      LET N == Nominating(EEPROM, Contributing(station), s, ct)
      IN IF N = {}
         THEN st[s] = 0 /\ remaining[s] = 0
         ELSE /\ st[s] = 1
              /\ remaining[s] = SetMax({ Cumulative(EEPROM, p, s) - ct : p \in N })

-----------------------------------------------------------------------------
(* The buttons from power-on with an empty table: longer sequences of      *)
(* single button edges than Spec explores                                  *)

\* loop() passes of one behaviour that see a button edge
MaxPresses == 9

UiEdges == { {n} : n \in ButtonIds }

\* erased flash, and an empty table with a run of program 3 recorded
UiImages == { BlankEeprom, Image({}, 1, 3, 15, 9) }

InitUI ==
  /\ pc = "run"
  /\ fault = NoFault
  /\ nev = 0
  /\ \E E \in UiImages : Load(setup(E))

(* a pass of loop() that sees one button edge                              *)
UiPress ==
  /\ pc = "run"
  /\ debounce = 0
  /\ nev < MaxPresses
  /\ \E B \in UiEdges : \E M \in { Mem } : \E S \in RunSection(M, 0) :
       Store(Buttons(S, B))
  /\ nev' = nev + 1
  /\ UNCHANGED << pc, fault >>

NextUI == UiPress \/ LoopDebounce \/ LoopQuiet

SpecUI == InitUI /\ [][NextUI]_vars

\* the cycles of the mode button and of the advance button as the UI
\* documents them
ProgCycle == (0 :> 1) @@ (1 :> 2) @@ (2 :> 3) @@ (3 :> 4) @@ (4 :> 5) @@
             (5 :> 9) @@ (9 :> 0)

StationCycle(pr) ==
  IF pr = 9 THEN (1 :> 2) @@ (2 :> 13) @@ (13 :> 1)
  ELSE (3 :> 4) @@ (4 :> 5) @@ (5 :> 6) @@ (6 :> 7) @@ (7 :> 3)

\* the table cells the UI may write
UiCells == ((1 .. 5) \X (3 .. 7)) \cup ({9} \X {1, 2, 13})

CursorOk ==
  /\ prog \in DOMAIN ProgCycle
  /\ prog \in 1 .. 5 => station \in 3 .. 7
  /\ prog = 9 => station \in {1, 2, 13}
  /\ prog = 0 => station \in 0 .. 5

\* C19: UI cursor invariant.  prog stays in {0,1,2,3,4,5,9} and the mode
\* button steps it along 0,1,2,3,4,5,9,0; the station cursor is in 3..7 for
\* prog 1..5 (advance: 3,4,5,6,7,3), in {1,2,13} for prog 9 (advance:
\* 1,2,13,1) and a selector in 0..5 for prog 0; the only table cells that
\* ever change are (1..5, 3..7) and (9, {1,2,13}).
UiCursorInvariant ==
  /\ []CursorOk
  /\ [][ /\ "button 1 LOW" \in serial' => prog' = ProgCycle[prog]
         /\ ("button 2 LOW" \in serial' /\ "button 1 LOW" \notin serial' /\ prog # 0)
              => station' = StationCycle(prog)[station]
         /\ \A p \in 0 .. (PROGS - 1) : \A s \in 0 .. (STATIONS - 1) :
              read_eeprom(EEPROM', p, s) # read_eeprom(EEPROM, p, s)
                => << p, s >> \in UiCells ]_vars

\* the cursor has reached the last cell of the backwash program after a
\* duration of that program was stored
UiCursorWitness ==
  prog = 9 /\ station = 13 /\ read_eeprom(EEPROM, 9, 1) # 0

-----------------------------------------------------------------------------
(* Editing durations: from erased flash the cursor is moved to an edit     *)
(* position by mode and advance presses, then increments are unbounded     *)
(* (they cycle the duration) and the other presses are counted             *)

\* loop() passes of one behaviour that see an edge other than an increment
MaxDurPresses == 1
\* mode and advance presses before the first increment
MaxModePresses == 6
MaxAdvancePresses == 4

RECURSIVE ModePresses(_, _)
ModePresses(S, k) == IF k = 0 THEN S ELSE ModePresses(Button1(S), k - 1)

RECURSIVE AdvancePresses(_, _)
AdvancePresses(S, j) == IF j = 0 THEN S ELSE AdvancePresses(Button2(S), j - 1)

InitDur ==
  /\ pc = "run"
  /\ fault = NoFault
  /\ nev = 0
  /\ \E k \in 0 .. MaxModePresses : \E j \in 0 .. MaxAdvancePresses :
       Load([AdvancePresses(ModePresses(setup(BlankEeprom), k), j) EXCEPT
               !.debounce = 0, !.serial = {}])

(* a pass of loop() that sees button 3 in edit mode                        *)
DurIncrement ==
  /\ pc = "run"
  /\ debounce = 0
  /\ prog # 0
  /\ \E M \in { Mem } : \E S \in RunSection(M, 0) : Store(Buttons(S, {3}))
  /\ UNCHANGED << nev, pc, fault >>

(* a pass of loop() that sees any other button edge                        *)
DurPress ==
  /\ pc = "run"
  /\ debounce = 0
  /\ nev < MaxDurPresses
  /\ \E B \in UiEdges :
       /\ B = {3} => prog = 0
       /\ \E M \in { Mem } : \E S \in RunSection(M, 0) : Store(Buttons(S, B))
  /\ nev' = nev + 1
  /\ UNCHANGED << pc, fault >>

NextDur == DurIncrement \/ DurPress \/ LoopDebounce \/ LoopQuiet

SpecDur == InitDur /\ [][NextDur]_vars


\* a duration the UI may hold or store
DurationOk(d) == d \in 0 .. 80 /\ d % 5 = 0

\* the backwash filter stations
FilterStation(pr, s) == pr = 9 /\ s \in {1, 2}

\* the smallest multiple of 5 above d
NextMultiple(d) == CHOOSE m \in 0 .. (d + 5) : m % 5 = 0 /\ m > d

\* the duration an increment press leaves, as the UI documents it
IncrementTo(pr, s, d) ==
  LET n == NextMultiple(d) + (IF FilterStation(pr, s) THEN 5 ELSE 0)
  IN IF n > 80 THEN 0 ELSE n

\* C20: Duration cap.  In edit mode an increment press sets duration to the
\* next multiple of 5 above it, plus 5 more on filter stations 1 and 2 of
\* program 9, and to 0 when that exceeds 80; from a zeroed table every
\* duration held by the UI or stored in the table is a multiple of 5 in
\* 0..80, and a multiple of 10 on the filter stations.
DurationCap ==
  /\ [](/\ DurationOk(duration)
        /\ FilterStation(prog, station) => duration % 10 = 0
        /\ \A p \in 0 .. (PROGS - 1) : \A s \in 0 .. (STATIONS - 1) :
             /\ DurationOk(read_eeprom(EEPROM, p, s))
             /\ FilterStation(p, s) => read_eeprom(EEPROM, p, s) % 10 = 0)
  /\ [][ ("button 3 LOW" \in serial' /\ prog # 0)
           => duration' = IncrementTo(prog, station, duration) ]_vars

\* filter station 1 is stored at the cap and filter station 2 has been
\* incremented up to it
DurationCapWitness ==
  /\ prog = 9 /\ station = 2 /\ duration = 80
  /\ read_eeprom(EEPROM, 9, 1) = 80


-----------------------------------------------------------------------------
\* C21 as stated: Backwash stage index stays in range.  In every pass that
\* runs the backwash accumulation (irrigation active, startup delay
\* consumed) the reference bt is at most ct, so the loop runs at least once
\* and bws[s-1] is read with s-1 in 0..2, never with s-1 = -1.
BackwashIndexInRange ==
  [][ "backwash" \in serial' => (bt <= ct' /\ "bws[-1]" \notin serial') ]_vars


-----------------------------------------------------------------------------
-----------------------------------------------------------------------------
(* start_runmode() interrupted: power is lost after k of its four          *)
(* EEPROM.write calls, each write durable when made, and setup() runs      *)

\* the byte writes of start_runmode()
StartBytes == 4

\* the EEPROM after the first k writes of start_runmode() with selector sel
StartWrites(E, sel, k) ==
  LET E1 == IF k >= 1 THEN EepromWrite(E, STATUS, BoolByte(TRUE)) ELSE E
      E2 == IF k >= 2 THEN EepromWrite(E1, LAST_PROG, sel) ELSE E1
      E3 == IF k >= 3
            THEN EepromWrite(E2, LAST_TIME_INDEX,
                             NextIndex(EepromRead(E2, LAST_TIME_INDEX)))
            ELSE E2
  IN IF k >= 4
     THEN EepromWrite(E3, LAST_TIME_BASE + EepromRead(E3, LAST_TIME_INDEX), 0)
     ELSE E3

\* a stopped system that has run before: the selector, the wear-level index
\* and the checkpoints of earlier runs are still stored
StartImage(cells, sel, idx, slot, nxt) ==
  EepromWrite(Image(cells, 0, sel, idx, slot),
              LAST_TIME_BASE + NextIndex(idx), nxt)

StartImages ==
  { StartImage(c, sel, idx, slot, nxt) :
      c \in { TableHour, TableShort }, sel \in { 0, 2 }, idx \in { 0, 15 },
      slot \in { 0, 9, 241 }, nxt \in { 0, 5 } }

InitStart ==
  /\ pc = "run"
  /\ fault = NoFault
  /\ nev = 0
  /\ \E E \in StartImages : Load(setup(E))

\* loop() passes of one behaviour that see the advance button
MaxSelects == 6

(* a pass of loop() that sees button 2: the run selector                   *)
StartSelect ==
  /\ pc = "run"
  /\ debounce = 0
  /\ nev < MaxSelects
  /\ \E M \in { Mem } : \E S \in RunSection(M, 0) : Store(Buttons(S, {2}))
  /\ nev' = nev + 1
  /\ UNCHANGED << pc, fault >>

BootPc == << "boot0", "boot1", "boot2", "boot3", "boot4" >>

(* a pass of loop() that sees button 3 and starts a run; power is lost     *)
(* after k writes of start_runmode(), then setup() runs                    *)
StartCrash ==
  /\ pc = "run"
  /\ debounce = 0
  /\ MayStart(Mem)
  /\ \E k \in 0 .. StartBytes :
       /\ Store(setup(StartWrites(EEPROM, station, k)))
       /\ pc' = BootPc[k + 1]
  /\ UNCHANGED << nev, fault >>

NextStart == StartSelect \/ LoopDebounce \/ StartCrash

SpecStart == InitStart /\ [][NextStart]_vars

=============================================================================
